---- MODULE Spec2Model ----
(***************************************************************************)
(* Background subagent orchestration of nanobot: the SubagentInfo record,  *)
(* the SubagentTracker registry and the SubagentManager with its runner    *)
(* tasks (src/nanobot/agent/subagent.py).                                  *)
(*                                                                         *)
(* Python values are encoded as follows.  An Optional value is a sequence  *)
(* of length at most one: None is <<>> and a value v is <<v>>.  A str that *)
(* is sliced or concatenated by the code is a sequence of one-character    *)
(* strings; tool names, statuses and phases are TLA+ strings.  A datetime  *)
(* is a natural number read from the clock variable now.  The dict         *)
(* tracker._agents is the sequence of its values in insertion order, each  *)
(* value carrying its key in task_id.                                      *)
(***************************************************************************)
EXTENDS Integers, Naturals, Sequences, FiniteSets

VARIABLES
    agents,         \* SubagentTracker._agents, in dict insertion order
    max_completed,  \* SubagentTracker._max_completed
    now,            \* the wall clock read by datetime.now()
    pc,             \* pc[r]: where the task of runner r stands
    task_id,        \* task_id[r]: the id spawn gave runner r (None before spawn)
    origin,         \* origin[r]: the origin spawn was called with
    iteration,      \* iteration[r]: the local variable of _run_subagent
    pending,        \* pending[r]: tool calls of the current response not yet finished
    final_result,   \* final_result[r]: the local variable of _run_subagent
    error_msg,      \* error_msg[r]: the local variable of the except clause
    bus,            \* messages published with bus.publish_inbound, in order
    running_tasks,  \* SubagentManager._running_tasks: the runners it holds a task of
    ended_hist,     \* history: <<id, t>> for the last ended_at written for id
    served,         \* history: served[r] counts the provider requests runner r
                    \* issued, the responses with tool calls, their tool calls,
                    \* and the exceptions raised to its task
    isolated,       \* history: no update_phase or mark_completed call made
                    \* directly on the tracker has touched another id's record
    reply,          \* the call and the text SubagentStatusTool.execute returned,
                    \* when the last step was a status query (None otherwise)
    shown,          \* the call of truncate under study and the string it
                    \* returned (None before the call returns)
    loop,           \* the context the event loop is running (None between tasks)
    opc             \* opc[c]: the tracker method context c is inside of, if any

vars == <<agents, max_completed, now, pc, task_id, origin, iteration, pending,
          final_result, error_msg, bus, running_tasks, ended_hist, served,
          isolated, reply, shown, loop, opc>>

managerVars == <<pc, task_id, origin, iteration, pending, final_result,
                 error_msg, bus, running_tasks, served>>
\* Variables of the statement-level model of the tracker (SpecAtomic); the
\* other specifications take a tracker method as one step and leave them alone.
atomVars == <<loop, opc>>

----------------------------------------------------------------------------
(* Bounds of the model. *)

\* Runners the supervising context spawns under Spec.
NumRunners == 1
\* Iteration cap of the runner loop (the source runs with 15).
max_iterations == 2
\* Task ids the tracker's callers use under SpecTracker.
TrackerIds == 2
\* Task ids the tracker's callers use under SpecPrune.
PruneIds == 3
\* Largest retention bound a tracker is constructed with under the tracker specs.
MaxCompleted == 1
\* Last instant of the clock.
MaxClock == 2
\* Longest tools_used list an update_phase call is made on under SpecTracker.
MaxTools == 1
\* Runner contexts that call the tracker under SpecAtomic.
AtomicIds == 1
\* Spawn calls the supervising context makes under SpecFleet.
FleetSize == 2
\* Longest value truncate is called on under SpecTruncate.
MaxValueLen == 5
\* Largest budget truncate is called with under SpecTruncate.
MaxBudget == 4
\* Task ids the tracker's callers use under SpecStatus.
StatusIds == 2
\* Last instant of the clock under SpecStatus.
StatusClock == 1

(* Program constants. *)

\* SubagentTracker.__init__(max_completed=20), as the manager constructs it.
DEFAULT_MAX_COMPLETED == 20
\* The [:200] slice of the texts handed to mark_completed.
PREVIEW_LEN == 200

----------------------------------------------------------------------------
(* Python values. *)

None == <<>>
Some(v) == <<v>>

\* bool(x) of an Optional[str] whose str is a character sequence.
TruthyText(o) == o # None /\ o[1] # <<>>
\* bool(x) of an Optional tool name.
TruthyName(o) == o # None /\ o[1] # ""

Min(a, b) == IF a <= b THEN a ELSE b

\* s[:n]
Take(s, n) == SubSeq(s, 1, Min(n, Len(s)))

Terminal == {"completed", "error"}

----------------------------------------------------------------------------
(* SubagentInfo and the dict of the tracker. *)

\* SubagentInfo(task_id=..., origin=...) with the dataclass defaults;
\* started_at is the clock at construction.
SubagentInfo(tid, org, started) ==
    [task_id           |-> tid,
     origin            |-> org,
     iteration         |-> 0,
     max_iterations    |-> max_iterations,
     status            |-> "running",
     current_phase     |-> "starting",
     current_tool      |-> None,
     current_tool_args |-> None,
     tools_used        |-> <<>>,
     started_at        |-> started,
     ended_at          |-> None,
     result_summary    |-> None,
     error_message     |-> None]

Keys(ags) == {ags[i].task_id : i \in DOMAIN ags}

IndexOf(ags, tid) == CHOOSE i \in DOMAIN ags : ags[i].task_id = tid

\* self._agents.get(task_id): None or the record.
get(ags, tid) == IF tid \in Keys(ags) THEN Some(ags[IndexOf(ags, tid)]) ELSE None

\* Mutant of register: only a known key is written.
register_known_only(ags, info) ==
    IF info.task_id \in Keys(ags)
    THEN [ags EXCEPT ![IndexOf(ags, info.task_id)] = info]
    ELSE ags

\* Mutant of register: the records that are not running make room for the
\* new one.
register_evicting(ags, info) ==
    Append(SelectSeq(ags, LAMBDA a : a.status = "running"
                                      /\ a.task_id # info.task_id), info)

\* self._agents[info.task_id] = info: a known key keeps its place in the order.
register(ags, info) ==
    IF info.task_id \in Keys(ags)
    THEN [ags EXCEPT ![IndexOf(ags, info.task_id)] = info]
    ELSE Append(ags, info)

\* del self._agents[tid] for every tid of a set.
Delete(ags, tids) == SelectSeq(ags, LAMBDA a : a.task_id \notin tids)

get_running(ags) == SelectSeq(ags, LAMBDA a : a.status = "running")
get_all(ags) == ags
get_running_count(ags) == Len(get_running(ags))

----------------------------------------------------------------------------
(* SubagentTracker._prune_completed *)

\* Mutant of SortKey: the records are sorted by their start.
SortKey_started_at(a) == a.started_at

\* key=lambda x: x[1].ended_at or x[1].started_at (a datetime is always true).
SortKey(a) == IF a.ended_at # None THEN a.ended_at[1] ELSE a.started_at

\* One step of a stable sort: x goes behind every element whose key is not larger.
InsertSorted(s, x) ==
    LET n == Cardinality({i \in DOMAIN s : SortKey(s[i]) <= SortKey(x)})
    IN  SubSeq(s, 1, n) \o <<x>> \o SubSeq(s, n + 1, Len(s))

RECURSIVE StableSort(_)
\* list.sort(key=...): ascending and stable.
StableSort(s) ==
    IF s = <<>> THEN <<>>
    ELSE InsertSorted(StableSort(SubSeq(s, 1, Len(s) - 1)), s[Len(s)])

\* Mutant of Completed: the status filter is missing.
Completed_unfiltered(ags) == ags

\* The (tid, a) pairs of the records that are not running, in dict order.
Completed(ags) == SelectSeq(ags, LAMBDA a : a.status # "running")

\* Mutant of prune_completed: the slice stops one short.
prune_completed_one_short(ags, maxc) ==
    LET completed == Completed(ags)
        sorted    == StableSort(completed)
        n         == Len(completed) - maxc
    IN  IF Len(completed) > maxc
        THEN Delete(ags, {sorted[i].task_id : i \in 1..(n - 1)})
        ELSE ags

prune_completed(ags, maxc) ==
    LET completed == Completed(ags)
        sorted    == StableSort(completed)
        n         == Len(completed) - maxc
    IN  IF Len(completed) > maxc
        THEN Delete(ags, {sorted[i].task_id : i \in 1..n})
        ELSE ags

----------------------------------------------------------------------------
(* SubagentTracker.update_phase and mark_completed *)

\* Mutant of update_phase: an unknown id gets a record (a setdefault), and
\* the tool name is appended to the tools_used of every record (one list
\* shared by the records).
update_phase_shared(ags, tid, phase, iter, tool_name, tool_args) ==
    LET base == IF get(ags, tid) = None
                THEN Append(ags, SubagentInfo(tid, "cli:direct", 0))
                ELSE ags
        i    == IndexOf(base, tid)
    IN  [j \in DOMAIN base |->
            LET a1 == IF j = i THEN [base[j] EXCEPT !.current_phase = phase]
                      ELSE base[j]
            IN  IF phase = "tool_running" /\ TruthyName(tool_name)
                THEN [a1 EXCEPT !.tools_used = Append(@, tool_name[1])]
                ELSE a1]

update_phase(ags, tid, phase, iter, tool_name, tool_args) ==
    IF get(ags, tid) = None THEN ags
    ELSE
      LET i    == IndexOf(ags, tid)
          info == ags[i]
          a1   == [info EXCEPT !.current_phase = phase]
          a2   == IF iter # None THEN [a1 EXCEPT !.iteration = iter[1]] ELSE a1
          a3   == IF phase = "tool_running"
                  THEN [a2 EXCEPT !.current_tool = tool_name,
                                  !.current_tool_args = tool_args,
                                  !.tools_used = IF TruthyName(tool_name)
                                                 THEN Append(@, tool_name[1])
                                                 ELSE @]
                  ELSE IF phase = "thinking"
                  THEN [a2 EXCEPT !.current_tool = None,
                                  !.current_tool_args = None]
                  ELSE a2
      IN  [ags EXCEPT ![i] = a3]

\* Mutant of MarkFields: the current tool is not cleared.
MarkFields_keeps_tool(info, status, result_summary, error_message, t) ==
    [info EXCEPT !.status = status,
                 !.current_phase = "done",
                 !.ended_at = Some(t),
                 !.result_summary = result_summary,
                 !.error_message = error_message]

\* Mutant of MarkFields: ended_at is not written.
MarkFields_no_end(info, status, result_summary, error_message, t) ==
    [info EXCEPT !.status = status,
                 !.current_phase = "done",
                 !.current_tool = None,
                 !.current_tool_args = None,
                 !.result_summary = result_summary,
                 !.error_message = error_message]

\* The field writes of mark_completed, before the pruning.
MarkFields(info, status, result_summary, error_message, t) ==
    [info EXCEPT !.status = status,
                 !.current_phase = "done",
                 !.current_tool = None,
                 !.current_tool_args = None,
                 !.ended_at = Some(t),
                 !.result_summary = result_summary,
                 !.error_message = error_message]

mark_completed(ags, tid, status, result_summary, error_message, t, maxc) ==
    IF get(ags, tid) = None THEN ags
    ELSE
      LET i == IndexOf(ags, tid)
      IN  prune_completed(
              [ags EXCEPT ![i] = MarkFields(ags[i], status, result_summary,
                                            error_message, t)],
              maxc)

----------------------------------------------------------------------------
(* The tracker driven directly through its methods, as the tests drive it. *)

\* The ended_at history after a mark_completed call at instant t.
Ended(hist, ags, tid, t) ==
    IF get(ags, tid) = None THEN hist
    ELSE {p \in hist : p[1] # tid} \cup {<<tid, t>>}

\* Ids that were given to a record so far.
Seen == Keys(agents) \cup {p[1] : p \in ended_hist}

\* An id is new when no record was given it before.  Ids are opaque, so the
\* model names them in the order of their first use.
IsNew(tid) == tid \notin Seen /\ \A q \in 1..(tid - 1) : q \in Seen

DEFAULT_ORIGIN == "cli:direct"

\* info = SubagentInfo(task_id=tid, ...) built at instant started, then
\* tracker.register(info); ids are not reused.
CallRegister(tid, started) ==
    /\ IsNew(tid)
    /\ agents' = register(agents, SubagentInfo(tid, DEFAULT_ORIGIN, started))
    /\ UNCHANGED <<max_completed, now, ended_hist>>
    /\ UNCHANGED managerVars
    /\ UNCHANGED atomVars
    /\ reply' = None
    /\ UNCHANGED shown
    /\ UNCHANGED isolated

\* A call for tid that took the dict from before to after left the records of
\* the other ids untouched: each is as it was, or is gone and was not running.
Untouched(before, after, tid) ==
    \A i \in DOMAIN before :
        before[i].task_id # tid =>
            IF before[i].task_id \in Keys(after)
            THEN get(after, before[i].task_id) = Some(before[i])
            ELSE before[i].status # "running"

\* tracker.update_phase(tid, phase, iteration=iter, tool_name=..., tool_args=...)
CallUpdatePhase(tid, phase, iter, tool_name, tool_args) ==
    /\ agents' = update_phase(agents, tid, phase, iter, tool_name, tool_args)
    /\ isolated' = (isolated /\ Untouched(agents, agents', tid))
    /\ UNCHANGED <<max_completed, now, ended_hist>>
    /\ UNCHANGED managerVars
    /\ UNCHANGED atomVars
    /\ reply' = None
    /\ UNCHANGED shown

\* tracker.mark_completed(tid, status, result_summary=..., error_message=...)
CallMarkCompleted(tid, status, result_summary, error_message) ==
    /\ agents' = mark_completed(agents, tid, status, result_summary,
                                error_message, now, max_completed)
    /\ ended_hist' = Ended(ended_hist, agents, tid, now)
    /\ isolated' = (isolated /\ Untouched(agents, agents', tid))
    /\ UNCHANGED <<max_completed, now>>
    /\ UNCHANGED managerVars
    /\ UNCHANGED atomVars
    /\ reply' = None
    /\ UNCHANGED shown

\* Time passes.
Tick ==
    /\ now < MaxClock
    /\ now' = now + 1
    /\ UNCHANGED <<agents, max_completed, ended_hist>>
    /\ UNCHANGED managerVars
    /\ UNCHANGED atomVars
    /\ reply' = None
    /\ UNCHANGED shown
    /\ UNCHANGED isolated

\* Texts the callers pass.
TEXT_OK == <<"o", "k">>
TEXT_BOOM == <<"b", "o", "o", "m">>

\* The manager before any spawn, with room for n runners.
ManagerInit(n) ==
    /\ pc = [r \in 1..n |-> "unborn"]
    /\ task_id = [r \in 1..n |-> None]
    /\ origin = [r \in 1..n |-> None]
    /\ iteration = [r \in 1..n |-> 0]
    /\ pending = [r \in 1..n |-> <<>>]
    /\ final_result = [r \in 1..n |-> None]
    /\ error_msg = [r \in 1..n |-> None]
    /\ bus = <<>>
    /\ running_tasks = {}
    /\ served = [r \in 1..n |->
                    [requests |-> 0, tool_responses |-> 0, tool_calls |-> 0,
                     failures |-> 0]]
    /\ isolated = TRUE
    /\ reply = None
    /\ shown = None
    /\ loop = None
    /\ opc = [c \in 0..AtomicIds |-> None]

\* The manager before any spawn.
InitManagerVars == ManagerInit(NumRunners)

\* SubagentTracker(max_completed=k)
InitTracker ==
    /\ agents = <<>>
    /\ max_completed \in 0..MaxCompleted
    /\ now = 0
    /\ ended_hist = {}
    /\ InitManagerVars

(* Registrations and completions, with time passing: the pruning policy. *)
NextPrune ==
    \/ \E tid \in 1..PruneIds : CallRegister(tid, now)
    \/ \E tid \in 1..PruneIds, status \in Terminal :
          CallMarkCompleted(tid, status, None, None)
    \/ Tick

SpecPrune == InitTracker /\ [][NextPrune]_vars

(* The pruning policy on records that were built at any earlier instant than
   the one of their registration, as register(info) allows. *)
NextPruneOrder ==
    \/ \E tid \in 1..PruneIds, started \in 0..now : CallRegister(tid, started)
    \/ \E tid \in 1..PruneIds, status \in Terminal :
          CallMarkCompleted(tid, status, None, None)
    \/ Tick

SpecPruneOrder == InitTracker /\ [][NextPruneOrder]_vars

(* Every mutating method, in any interleaving over the ids, at one instant. *)
PhaseCalls ==
    {<<"thinking", Some(1), None, None>>,
     <<"tool_running", Some(1), Some("exec"), Some("args")>>,
     <<"tool_running", None, None, None>>,
     <<"done", None, None, None>>}

MarkCalls ==
    {<<"completed", Some(TEXT_OK), None>>,
     <<"error", None, Some(TEXT_BOOM)>>}

NextTracker ==
    \/ \E tid \in 1..TrackerIds : CallRegister(tid, now)
    \/ \E tid \in 1..TrackerIds, c \in PhaseCalls :
          /\ (get(agents, tid) # None /\ TruthyName(c[3]))
                => Len(get(agents, tid)[1].tools_used) < MaxTools
          /\ CallUpdatePhase(tid, c[1], c[2], c[3], c[4])
    \/ \E tid \in 1..TrackerIds, c \in MarkCalls :
          CallMarkCompleted(tid, c[1], c[2], c[3])

SpecTracker == InitTracker /\ [][NextTracker]_vars

(* The tracker called with every phase, tool name and text its methods accept. *)

\* A text longer than the preview.
LONG_TEXT == [i \in 1..(PREVIEW_LEN + 1) |-> "x"]

\* update_phase calls: each of the four phases; tool_running with a tool name
\* (the empty name included) and arguments.
ApiPhaseCalls ==
    {<<"starting", None, None, None>>,
     <<"thinking", Some(1), None, None>>,
     <<"tool_running", Some(1), Some("exec"), Some("args")>>,
     <<"tool_running", Some(1), Some(""), Some("args")>>,
     <<"done", None, None, None>>}

\* mark_completed calls: a summary, an error, a summary longer than the preview.
ApiMarkCalls ==
    {<<"completed", Some(TEXT_OK), None>>,
     <<"error", None, Some(TEXT_BOOM)>>,
     <<"completed", Some(LONG_TEXT), None>>}

NextApi ==
    \/ \E tid \in 1..TrackerIds : CallRegister(tid, now)
    \/ \E tid \in 1..TrackerIds, c \in ApiPhaseCalls :
          /\ (get(agents, tid) # None /\ TruthyName(c[3]))
                => Len(get(agents, tid)[1].tools_used) < MaxTools
          /\ CallUpdatePhase(tid, c[1], c[2], c[3], c[4])
    \/ \E tid \in 1..TrackerIds, c \in ApiMarkCalls :
          CallMarkCompleted(tid, c[1], c[2], c[3])

SpecApi == InitTracker /\ [][NextApi]_vars

----------------------------------------------------------------------------
(* SubagentInfo.elapsed_seconds and display_status, and SubagentStatusTool.
   A text is kept as its fixed part (kind), the values formatted into its
   first line (head) and its further lines; the records of the model carry no
   label and no task. *)

\* SubagentInfo.elapsed_seconds read at instant t:
\* ((self.ended_at or datetime.now()) - self.started_at).total_seconds()
elapsed_seconds(a, t) ==
    (IF a.ended_at # None THEN a.ended_at[1] ELSE t) - a.started_at

\* format_tool_status(tool_name, arguments): the tool and its arguments, which
\* the model keeps opaque.
format_tool_status(tool_name, arguments) == <<tool_name, arguments>>

\* info.current_tool_args or {}
ArgsOrEmpty(tool_args) == IF tool_args = None THEN "{}" ELSE tool_args[1]

\* SubagentInfo.display_status read at instant t.
display_status(a, t) ==
    IF a.status # "running"
    THEN <<<<a.status>>, elapsed_seconds(a, t)>>
    ELSE IF a.current_phase = "thinking"
    THEN <<<<"thinking">>, a.iteration, a.max_iterations>>
    ELSE IF a.current_phase = "tool_running" /\ TruthyName(a.current_tool)
    THEN <<format_tool_status(a.current_tool[1], ArgsOrEmpty(a.current_tool_args)),
           a.iteration, a.max_iterations>>
    ELSE <<<<a.current_phase>>, a.iteration, a.max_iterations>>

Text(kind, head, lines) == [kind |-> kind, head |-> head, lines |-> lines]

NO_RUNNING == "No subagents currently running."
ID_REQUIRED == "Error: task_id is required for 'detail' action."
NOT_FOUND == "No subagent found with ID"
NO_TRACKED == "No subagents tracked."
UNKNOWN_ACTION == "Unknown action:"

\* SubagentStatusTool._list_running at instant t.
list_running(ags, t) ==
    LET found == get_running(ags)
    IN  IF found = <<>>
        THEN Text(NO_RUNNING, <<>>, <<>>)
        ELSE Text("running subagent(s):", <<Len(found)>>,
                  [i \in DOMAIN found |->
                      <<"-", found[i].task_id, display_status(found[i], t),
                        elapsed_seconds(found[i], t)>>])

\* The id the empty string stands for in the model, whose ids are numbers.
EMPTY_ID == 0

\* SubagentStatusTool._detail(task_id) at instant t.
detail(ags, tid, t) ==
    IF tid = None \/ tid = Some(EMPTY_ID)
    THEN Text(ID_REQUIRED, <<>>, <<>>)
    ELSE IF get(ags, tid[1]) = None
    THEN Text(NOT_FOUND, <<tid[1]>>, <<>>)
    ELSE LET info == get(ags, tid[1])[1]
         IN  Text("Subagent", <<info.task_id>>,
                  << <<"Status:", display_status(info, t)>>,
                     <<"Iteration:", info.iteration, info.max_iterations>>,
                     <<"Elapsed:", elapsed_seconds(info, t)>>,
                     <<"Tools used:", info.tools_used>> >>
                  \o (IF TruthyName(info.current_tool)
                      THEN << <<"Currently:",
                                format_tool_status(info.current_tool[1],
                                    ArgsOrEmpty(info.current_tool_args))>> >>
                      ELSE <<>>)
                  \o (IF TruthyText(info.result_summary)
                      THEN << <<"Result:", info.result_summary[1]>> >>
                      ELSE <<>>)
                  \o (IF TruthyText(info.error_message)
                      THEN << <<"Error:", info.error_message[1]>> >>
                      ELSE <<>>))

\* Mutant of list_all: the records are listed in the order of the tracker,
\* under one heading.
list_all_unsorted(ags, t) ==
    LET found == get_all(ags)
    IN  IF found = <<>>
        THEN Text(NO_TRACKED, <<>>, <<>>)
        ELSE Text("all", <<>>,
                  << <<"Running", Len(found)>> >>
                  \o [i \in DOMAIN found |->
                        <<"-", found[i].task_id, display_status(found[i], t)>>])

\* SubagentStatusTool._list_all at instant t.
list_all(ags, t) ==
    LET found == get_all(ags)
        running == SelectSeq(found, LAMBDA a : a.status = "running")
        completed == SelectSeq(found, LAMBDA a : a.status # "running")
    IN  IF found = <<>>
        THEN Text(NO_TRACKED, <<>>, <<>>)
        ELSE Text("all", <<>>,
                  (IF running # <<>>
                   THEN << <<"Running", Len(running)>> >>
                        \o [i \in DOMAIN running |->
                              <<"-", running[i].task_id,
                                display_status(running[i], t)>>]
                   ELSE <<>>)
                  \o (IF completed # <<>>
                      THEN << <<"Completed", Len(completed)>> >>
                           \o [i \in DOMAIN completed |->
                                 <<"-", completed[i].task_id,
                                   IF completed[i].status = "completed"
                                   THEN "ok" ELSE "ERR",
                                   elapsed_seconds(completed[i], t)>>]
                      ELSE <<>>))

\* Mutant of execute: an action that is not known is taken for list, and
\* detail of an id that is not tracked for all.
execute_lenient(ags, action, tid, t) ==
    IF action = "all" THEN list_all(ags, t)
    ELSE IF action = "detail"
    THEN IF tid # None /\ tid # Some(EMPTY_ID) /\ get(ags, tid[1]) = None
         THEN list_all(ags, t)
         ELSE detail(ags, tid, t)
    ELSE list_running(ags, t)

\* SubagentStatusTool.execute(action, task_id) at instant t.
execute(ags, action, tid, t) ==
    IF action = "list" THEN list_running(ags, t)
    ELSE IF action = "detail" THEN detail(ags, tid, t)
    ELSE IF action = "all" THEN list_all(ags, t)
    ELSE Text(UNKNOWN_ACTION, <<action>>, <<>>)

\* Mutant of Execute: the all action drops the records that are not running.
Execute_all_prunes(action, tid) ==
    /\ reply' = Some([task_id |-> tid, action |-> action,
                      text |-> execute(agents, action, tid, now)])
    /\ UNCHANGED shown
    /\ agents' = IF action = "all" THEN prune_completed(agents, 0) ELSE agents
    /\ UNCHANGED <<max_completed, now, ended_hist>>
    /\ UNCHANGED managerVars
    /\ UNCHANGED atomVars
    /\ UNCHANGED isolated

\* await status_tool.execute(action, task_id): the text goes to the caller.
Execute(action, tid) ==
    /\ reply' = Some([task_id |-> tid, action |-> action,
                      text |-> execute(agents, action, tid, now)])
    /\ UNCHANGED shown
    /\ UNCHANGED <<agents, max_completed, now, ended_hist>>
    /\ UNCHANGED managerVars
    /\ UNCHANGED atomVars
    /\ UNCHANGED isolated

(* SpecStatus: records registered and marked completed or failed, time
   passing, and the status tool queried in any state. *)

\* The calls of the status tool: its three actions, one outside them, and
\* detail with no id, the empty id, and every id.
StatusCalls ==
    {<<a, None>> : a \in {"list", "detail", "all", "restart"}}
    \cup {<<"detail", Some(i)>> : i \in {EMPTY_ID} \cup 1..StatusIds}

NextStatus ==
    \/ \E tid \in 1..StatusIds : CallRegister(tid, now)
    \/ \E tid \in 1..StatusIds, c \in MarkCalls :
          CallMarkCompleted(tid, c[1], c[2], c[3])
    \/ now < StatusClock /\ Tick
    \/ \E c \in StatusCalls : Execute(c[1], c[2])

SpecStatus == InitTracker /\ [][NextStatus]_vars

----------------------------------------------------------------------------
(* SubagentManager: spawn, the runner task _run_subagent, _announce_result. *)

\* "Task completed but no final response was generated."
PLACEHOLDER ==
  <<
    "T", "a", "s", "k", " ", "c", "o", "m", "p", "l",
    "e", "t", "e", "d", " ", "b", "u", "t", " ", "n",
    "o", " ", "f", "i", "n", "a", "l", " ", "r", "e",
    "s", "p", "o", "n", "s", "e", " ", "w", "a", "s",
    " ", "g", "e", "n", "e", "r", "a", "t", "e", "d",
    "."
  >>

\* The "Error: " of f"Error: {error_msg}".
ERROR_PREFIX == <<"E", "r", "r", "o", "r", ":", " ">>

\* The origins spawn is called with, as f"{channel}:{chat_id}".
Origins == {"cli:direct", "telegram:42"}

\* Mutant of RunnerTools: the spawn tool is registered too.
RunnerTools_with_spawn ==
    {"read_file", "write_file", "edit_file", "list_dir", "exec", "web_search",
     "web_fetch", "spawn"}

\* The names of the tools registered in the ToolRegistry built for a runner.
RunnerTools ==
    {"read_file", "write_file", "edit_file", "list_dir", "exec", "web_search",
     "web_fetch"}

\* response.tool_calls of a response that has tool calls, among the tools
\* whose definitions the request carried (tools.get_definitions()).
ToolCallLists ==
    {calls \in {<<[arguments |-> "args1", name |-> "read_file"],
                  [arguments |-> "args2", name |-> "exec"]>>} :
        \A i \in DOMAIN calls : calls[i].name \in RunnerTools}

\* What provider.chat returns: tool calls, or a content that is the answer.
Responses ==
    {[tool_calls |-> tcs, content |-> None] : tcs \in ToolCallLists}
    \cup {[tool_calls |-> <<>>, content |-> c] :
             c \in {None, Some(<<>>), Some(TEXT_OK)}}

\* str(e) of the exceptions the provider, a tool or the bus raises.
ErrorTexts == {<<>>, TEXT_BOOM}

Runners == 1..NumRunners

\* Mutant of Announcement: the address is read from the tracker's record of
\* the task id instead of the origin the task was started with.
Announcement_from_tracker(r, result, status) ==
    [result      |-> result,
     channel     |-> "system",
     sender_id   |-> "subagent",
     chat_id     |-> get(agents, task_id[r][1])[1].origin,
     status_text |-> IF status = "ok" THEN "completed successfully" ELSE "failed",
     by          |-> r]

\* The InboundMessage of _announce_result; its content is kept as the status
\* text and the result it is formatted from.  by is history: the runner
\* whose task published it.
Announcement(r, result, status) ==
    [result      |-> result,
     channel     |-> "system",
     sender_id   |-> "subagent",
     chat_id     |-> origin[r][1],
     status_text |-> IF status = "ok" THEN "completed successfully" ELSE "failed",
     by          |-> r]

\* manager.spawn(task, origin_channel=..., origin_chat_id=...) when
\* str(uuid.uuid4())[:8] is tid: the record is registered under tid and the
\* task is created, not yet run.
SpawnWith(r, tid, org) ==
    /\ pc[r] = "unborn"
    /\ \A q \in DOMAIN pc : q < r => pc[q] # "unborn"
    /\ agents' = register(agents, SubagentInfo(tid, org, now))
    /\ task_id' = [task_id EXCEPT ![r] = Some(tid)]
    /\ origin' = [origin EXCEPT ![r] = Some(org)]
    /\ running_tasks' = {p \in running_tasks : p[1] # tid} \cup {<<tid, r>>}
    /\ pc' = [pc EXCEPT ![r] = "created"]
    /\ UNCHANGED <<max_completed, now, iteration, pending, final_result,
                   error_msg, bus, ended_hist>>
    /\ UNCHANGED atomVars
    /\ reply' = None
    /\ UNCHANGED shown
    /\ UNCHANGED isolated
    /\ UNCHANGED served

\* spawn when uuid4 gives an id no record was given before.
Spawn(r, tid, org) ==
    /\ IsNew(tid)
    /\ SpawnWith(r, tid, org)

\* Mutant of Complete: the exhausted loop raises instead of taking the
\* placeholder.
Complete_raise_on_none(r, final) ==
    IF final = None
    THEN /\ error_msg' = [error_msg EXCEPT ![r] = Some(PLACEHOLDER)]
         /\ agents' = mark_completed(agents, task_id[r][1], "error", None,
                                     Some(Take(PLACEHOLDER, PREVIEW_LEN)),
                                     now, max_completed)
         /\ ended_hist' = Ended(ended_hist, agents, task_id[r][1], now)
         /\ pc' = [pc EXCEPT ![r] = "announce_err"]
         /\ UNCHANGED <<iteration, pending, final_result>>
    ELSE /\ final_result' = [final_result EXCEPT ![r] = final]
         /\ agents' = mark_completed(agents, task_id[r][1], "completed",
                                     Some(Take(final[1], PREVIEW_LEN)), None,
                                     now, max_completed)
         /\ ended_hist' = Ended(ended_hist, agents, task_id[r][1], now)
         /\ pc' = [pc EXCEPT ![r] = "announce_ok"]
         /\ pending' = [pending EXCEPT ![r] = <<>>]
         /\ UNCHANGED <<iteration, error_msg>>

\* Mutant of Complete: the announcement is awaited before the record is
\* marked.
Complete_announce_first(r, final) ==
    LET text == IF final = None THEN PLACEHOLDER ELSE final[1]
    IN  /\ final_result' = [final_result EXCEPT ![r] = Some(text)]
        /\ agents' = agents
        /\ ended_hist' = ended_hist
        /\ pc' = [pc EXCEPT ![r] = "announce_ok"]
        /\ pending' = [pending EXCEPT ![r] = <<>>]
        /\ UNCHANGED <<iteration, error_msg>>

\* Mutant of Complete: with no final result the runner waits for one that
\* never comes.
Complete_hangs_on_none(r, final) ==
    IF final = None
    THEN /\ pc' = [pc EXCEPT ![r] = "hung"]
         /\ UNCHANGED <<agents, iteration, pending, final_result, error_msg,
                         ended_hist>>
    ELSE /\ final_result' = [final_result EXCEPT ![r] = final]
         /\ agents' = mark_completed(agents, task_id[r][1], "completed",
                                     Some(Take(final[1], PREVIEW_LEN)), None,
                                     now, max_completed)
         /\ ended_hist' = Ended(ended_hist, agents, task_id[r][1], now)
         /\ pc' = [pc EXCEPT ![r] = "announce_ok"]
         /\ pending' = [pending EXCEPT ![r] = <<>>]
         /\ UNCHANGED <<iteration, error_msg>>

\* The statements from the loop exit to the await of the announcement:
\* the placeholder, mark_completed("completed", final_result[:200]).
Complete(r, final) ==
    LET text == IF final = None THEN PLACEHOLDER ELSE final[1]
    IN  /\ final_result' = [final_result EXCEPT ![r] = Some(text)]
        /\ agents' = mark_completed(agents, task_id[r][1], "completed",
                                    Some(Take(text, PREVIEW_LEN)), None,
                                    now, max_completed)
        /\ ended_hist' = Ended(ended_hist, agents, task_id[r][1], now)
        /\ pc' = [pc EXCEPT ![r] = "announce_ok"]
        /\ pending' = [pending EXCEPT ![r] = <<>>]
        /\ UNCHANGED <<iteration, error_msg>>

\* Mutant of Fail: the except clause sets the phase with update_phase and
\* leaves the status.
Fail_phase_only(r, e) ==
    /\ error_msg' = [error_msg EXCEPT ![r] = Some(e)]
    /\ agents' = update_phase(agents, task_id[r][1], "done", None, None, None)
    /\ ended_hist' = ended_hist
    /\ pc' = [pc EXCEPT ![r] = "announce_err"]
    /\ UNCHANGED <<iteration, pending, final_result>>

\* except Exception as e: mark_completed("error", str(e)[:200]), up to the
\* await of the announcement.
Fail(r, e) ==
    /\ error_msg' = [error_msg EXCEPT ![r] = Some(e)]
    /\ agents' = mark_completed(agents, task_id[r][1], "error", None,
                                Some(Take(e, PREVIEW_LEN)), now, max_completed)
    /\ ended_hist' = Ended(ended_hist, agents, task_id[r][1], now)
    /\ pc' = [pc EXCEPT ![r] = "announce_err"]
    /\ UNCHANGED <<iteration, pending, final_result>>

\* Mutant of LoopHead: the next iteration begins without the update_phase
\* call.
LoopHead_no_phase(r) ==
    IF iteration[r] < max_iterations
    THEN /\ iteration' = [iteration EXCEPT ![r] = @ + 1]
         /\ agents' = agents
         /\ pc' = [pc EXCEPT ![r] = "chat"]
         /\ pending' = [pending EXCEPT ![r] = <<>>]
         /\ UNCHANGED <<final_result, error_msg, ended_hist>>
    ELSE Complete(r, final_result[r])

\* Mutant of LoopHead: the loop test is iteration <= max_iterations.
LoopHead_one_more(r) ==
    IF iteration[r] <= max_iterations
    THEN /\ iteration' = [iteration EXCEPT ![r] = @ + 1]
         /\ agents' = update_phase(agents, task_id[r][1], "thinking",
                                   Some(iteration[r] + 1), None, None)
         /\ pc' = [pc EXCEPT ![r] = "chat"]
         /\ pending' = [pending EXCEPT ![r] = <<>>]
         /\ UNCHANGED <<final_result, error_msg, ended_hist>>
    ELSE Complete(r, final_result[r])

\* while iteration < max_iterations: the next iteration up to the await of
\* provider.chat, or the loop exit with no final result.
LoopHead(r) ==
    IF iteration[r] < max_iterations
    THEN /\ iteration' = [iteration EXCEPT ![r] = @ + 1]
         /\ agents' = update_phase(agents, task_id[r][1], "thinking",
                                   Some(iteration[r] + 1), None, None)
         /\ pc' = [pc EXCEPT ![r] = "chat"]
         /\ pending' = [pending EXCEPT ![r] = <<>>]
         /\ UNCHANGED <<final_result, error_msg, ended_hist>>
    ELSE Complete(r, final_result[r])

\* Mutant of StartTool: the tool name is not passed to update_phase.
StartTool_unnamed(r, calls) ==
    /\ agents' = update_phase(agents, task_id[r][1], "tool_running",
                              Some(iteration[r]), None,
                              Some(calls[1].arguments))
    /\ pending' = [pending EXCEPT ![r] = calls]
    /\ pc' = [pc EXCEPT ![r] = "tool"]
    /\ UNCHANGED <<iteration, final_result, error_msg, ended_hist>>

\* update_phase("tool_running", ...) for a tool call, up to the await of
\* tools.execute.
StartTool(r, calls) ==
    /\ agents' = update_phase(agents, task_id[r][1], "tool_running",
                              Some(iteration[r]), Some(calls[1].name),
                              Some(calls[1].arguments))
    /\ pending' = [pending EXCEPT ![r] = calls]
    /\ pc' = [pc EXCEPT ![r] = "tool"]
    /\ UNCHANGED <<iteration, final_result, error_msg, ended_hist>>

\* The task starts to run: the tools and the messages are built and the
\* loop is entered.
RunnerStart(r) ==
    /\ pc[r] = "created"
    /\ LoopHead(r)
    /\ served' = [served EXCEPT ![r].requests =
                     IF pc'[r] = "chat" THEN @ + 1 ELSE @]
    /\ UNCHANGED <<max_completed, now, task_id, origin, bus, running_tasks>>
    /\ UNCHANGED atomVars
    /\ reply' = None
    /\ UNCHANGED shown
    /\ UNCHANGED isolated

\* provider.chat returns a response.
ChatReturns(r, response) ==
    /\ pc[r] = "chat"
    /\ IF response.tool_calls # <<>>
       THEN StartTool(r, response.tool_calls)
       ELSE Complete(r, response.content)
    /\ served' = IF response.tool_calls # <<>>
                 THEN [served EXCEPT ![r].tool_responses = @ + 1,
                                     ![r].tool_calls = @ + Len(response.tool_calls)]
                 ELSE served
    /\ UNCHANGED <<max_completed, now, task_id, origin, bus, running_tasks>>
    /\ UNCHANGED atomVars
    /\ reply' = None
    /\ UNCHANGED shown
    /\ UNCHANGED isolated

\* provider.chat raises.
ChatFails(r, e) ==
    /\ pc[r] = "chat"
    /\ Fail(r, e)
    /\ served' = [served EXCEPT ![r].failures = @ + 1]
    /\ UNCHANGED <<max_completed, now, task_id, origin, bus, running_tasks>>
    /\ UNCHANGED atomVars
    /\ reply' = None
    /\ UNCHANGED shown
    /\ UNCHANGED isolated

\* tools.execute returns: the next tool call of the response, or the next
\* iteration.
ToolReturns(r) ==
    /\ pc[r] = "tool"
    /\ IF Tail(pending[r]) # <<>>
       THEN StartTool(r, Tail(pending[r]))
       ELSE LoopHead(r)
    /\ served' = [served EXCEPT ![r].requests =
                     IF pc'[r] = "chat" THEN @ + 1 ELSE @]
    /\ UNCHANGED <<max_completed, now, task_id, origin, bus, running_tasks>>
    /\ UNCHANGED atomVars
    /\ reply' = None
    /\ UNCHANGED shown
    /\ UNCHANGED isolated

\* tools.execute raises.
ToolFails(r, e) ==
    /\ pc[r] = "tool"
    /\ Fail(r, e)
    /\ served' = [served EXCEPT ![r].failures = @ + 1]
    /\ UNCHANGED <<max_completed, now, task_id, origin, bus, running_tasks>>
    /\ UNCHANGED atomVars
    /\ reply' = None
    /\ UNCHANGED shown
    /\ UNCHANGED isolated

\* bus.publish_inbound returns: the message is on the bus and the task ends.
PublishReturns(r) ==
    /\ pc[r] \in {"announce_ok", "announce_err"}
    /\ bus' = Append(bus,
                     IF pc[r] = "announce_ok"
                     THEN Announcement(r, final_result[r][1], "ok")
                     ELSE Announcement(r, ERROR_PREFIX \o error_msg[r][1], "error"))
    /\ pc' = [pc EXCEPT ![r] = "finished"]
    /\ UNCHANGED <<agents, max_completed, now, task_id, origin, iteration,
                   pending, final_result, error_msg, running_tasks, ended_hist>>
    /\ UNCHANGED atomVars
    /\ reply' = None
    /\ UNCHANGED shown
    /\ UNCHANGED isolated
    /\ UNCHANGED served

\* bus.publish_inbound raises in the try block: the except clause runs.
PublishFailsInTry(r, e) ==
    /\ pc[r] = "announce_ok"
    /\ Fail(r, e)
    /\ served' = [served EXCEPT ![r].failures = @ + 1]
    /\ UNCHANGED <<max_completed, now, task_id, origin, bus, running_tasks>>
    /\ UNCHANGED atomVars
    /\ reply' = None
    /\ UNCHANGED shown
    /\ UNCHANGED isolated

\* bus.publish_inbound raises in the except clause: the exception leaves the task.
PublishFailsInExcept(r) ==
    /\ pc[r] = "announce_err"
    /\ pc' = [pc EXCEPT ![r] = "raised"]
    /\ UNCHANGED <<agents, max_completed, now, task_id, origin, iteration,
                   pending, final_result, error_msg, bus, running_tasks,
                   ended_hist>>
    /\ UNCHANGED atomVars
    /\ reply' = None
    /\ UNCHANGED shown
    /\ UNCHANGED isolated
    /\ served' = [served EXCEPT ![r].failures = @ + 1]

\* bg_task.add_done_callback(lambda _: self._running_tasks.pop(task_id, None))
DoneCallback(r) ==
    /\ pc[r] \in {"finished", "raised"}
    /\ running_tasks' = {p \in running_tasks : p[1] # task_id[r][1]}
    /\ pc' = [pc EXCEPT ![r] = IF pc[r] = "finished" THEN "done" ELSE "done_raised"]
    /\ UNCHANGED <<agents, max_completed, now, task_id, origin, iteration,
                   pending, final_result, error_msg, bus, ended_hist>>
    /\ UNCHANGED atomVars
    /\ reply' = None
    /\ UNCHANGED shown
    /\ UNCHANGED isolated
    /\ UNCHANGED served

\* SubagentManager.__init__: self.tracker = SubagentTracker()
Init ==
    /\ agents = <<>>
    /\ max_completed = DEFAULT_MAX_COMPLETED
    /\ now = 0
    /\ ended_hist = {}
    /\ InitManagerVars

Next ==
    \/ \E r \in Runners, tid \in Runners, org \in Origins : Spawn(r, tid, org)
    \/ \E r \in Runners : RunnerStart(r)
    \/ \E r \in Runners, response \in Responses : ChatReturns(r, response)
    \/ \E r \in Runners, e \in ErrorTexts : ChatFails(r, e)
    \/ \E r \in Runners : ToolReturns(r)
    \/ \E r \in Runners, e \in ErrorTexts : ToolFails(r, e)
    \/ \E r \in Runners : PublishReturns(r)
    \/ \E r \in Runners, e \in ErrorTexts : PublishFailsInTry(r, e)
    \/ \E r \in Runners : PublishFailsInExcept(r)
    \/ \E r \in Runners : DoneCallback(r)

Spec == Init /\ [][Next]_vars

\* The event loop runs every task that is ready, and every request to the
\* provider and every tool execution returns or raises in the end.  Nothing
\* is assumed of the supervising context (it may never spawn) nor of the bus.
\* A runner is at one place at a time, so one condition on its next step,
\* whichever it is, says as much as one condition for each.
RunnerStep(r) ==
    \/ RunnerStart(r)
    \/ \E response \in Responses : ChatReturns(r, response)
    \/ \E e \in ErrorTexts : ChatFails(r, e)
    \/ ToolReturns(r)
    \/ \E e \in ErrorTexts : ToolFails(r, e)

Fairness == \A r \in Runners : WF_vars(RunnerStep(r))

SpecLive == Init /\ [][Next]_vars /\ Fairness

----------------------------------------------------------------------------
(* SpecFleet: FleetSize spawn calls in one process, their runners in flight
   together.  The id of a spawn is the first 8 hexadecimal digits of a random
   uuid4, drawn with no look at the tracker: it is any id, one drawn before
   included.  The provider answers each runner's first request with the
   answer, or raises; so does the bus. *)

Fleet == 1..FleetSize

\* The ids a spawn can draw, up to renaming: one drawn before, or the next.
Draws == {tid \in Fleet : tid \in Seen \/ IsNew(tid)}

\* The provider's responses under SpecFleet.
FleetResponses == {x \in Responses : x.content = Some(TEXT_OK)}

InitFleet ==
    /\ agents = <<>>
    /\ max_completed = DEFAULT_MAX_COMPLETED
    /\ now = 0
    /\ ended_hist = {}
    /\ ManagerInit(FleetSize)

NextFleet ==
    \/ \E r \in Fleet, tid \in Draws, org \in Origins : SpawnWith(r, tid, org)
    \/ \E r \in Fleet : RunnerStart(r)
    \/ \E r \in Fleet, response \in FleetResponses : ChatReturns(r, response)
    \/ \E r \in Fleet : ChatFails(r, TEXT_BOOM)
    \/ \E r \in Fleet : PublishReturns(r)
    \/ \E r \in Fleet : PublishFailsInTry(r, TEXT_BOOM)
    \/ \E r \in Fleet : PublishFailsInExcept(r)
    \/ \E r \in Fleet : DoneCallback(r)

SpecFleet == InitFleet /\ [][NextFleet]_vars

----------------------------------------------------------------------------
(* The tracker statement by statement, called from the tasks of one asyncio *)
(* event loop: the supervising context (0: spawn and the status tool) and   *)
(* the runner of each id.  A task runs until it reaches an await.           *)

Callers == 0..AtomicIds

\* The methods that only read.
Reads == {"get", "get_running", "get_all", "get_running_count"}

\* The tracker calls context c makes: the supervising context registers new
\* ids and reads; the runner of a registered id updates and completes it.
AtomicCalls(c) ==
    IF c = 0
    THEN {[tid |-> t, name |-> "register", args |-> <<>>] :
             t \in {q \in 1..AtomicIds : IsNew(q)}}
         \cup {[tid |-> 1, name |-> m, args |-> <<>>] : m \in Reads}
    ELSE IF c \in Seen
    THEN {[tid |-> c, name |-> "update_phase", args |-> a] :
             a \in {x \in PhaseCalls :
                      (get(agents, c) # None /\ TruthyName(x[3]))
                          => Len(get(agents, c)[1].tools_used) < MaxTools}}
         \cup {[tid |-> c, name |-> "mark_completed", args |-> a] :
                  a \in MarkCalls}
    ELSE {}

\* info.<field> = v on the object the method holds; an object that is no
\* longer in the dict is out of every reader's sight.
SetField(ags, tid, f, v) ==
    IF tid \in Keys(ags)
    THEN [ags EXCEPT ![IndexOf(ags, tid)] = [@ EXCEPT ![f] = v]]
    ELSE ags

\* The outcome of a statement: the dict, the ids _prune_completed has still
\* to delete, and whether the method returns.
Outcome(ags, todo, done) == [ags |-> ags, todo |-> todo, done |-> done]

\* Statement k of update_phase(tid, phase, iteration=iter, tool_name=tn,
\* tool_args=ta).
UpdatePhaseStmt(ags, tid, a, k) ==
    LET phase == a[1]  iter == a[2]  tn == a[3]  ta == a[4]
    IN  CASE k = 0 -> Outcome(ags, <<>>, get(ags, tid) = None)
          [] k = 1 -> Outcome(SetField(ags, tid, "current_phase", phase), <<>>, FALSE)
          [] k = 2 -> Outcome(IF iter # None
                              THEN SetField(ags, tid, "iteration", iter[1])
                              ELSE ags,
                              <<>>, phase \notin {"tool_running", "thinking"})
          [] k = 3 -> Outcome(SetField(ags, tid, "current_tool",
                                       IF phase = "tool_running" THEN tn ELSE None),
                              <<>>, FALSE)
          [] k = 4 -> Outcome(SetField(ags, tid, "current_tool_args",
                                       IF phase = "tool_running" THEN ta ELSE None),
                              <<>>, ~(phase = "tool_running" /\ TruthyName(tn)))
          [] OTHER -> Outcome(IF tid \in Keys(ags)
                              THEN SetField(ags, tid, "tools_used",
                                            Append(get(ags, tid)[1].tools_used, tn[1]))
                              ELSE ags,
                              <<>>, TRUE)

\* Statement k of mark_completed(tid, status, result_summary, error_message)
\* with _prune_completed inlined: the list and its sort, then one del a step.
MarkCompletedStmt(ags, tid, a, k, todo, t, maxc) ==
    CASE k = 0 -> Outcome(ags, <<>>, get(ags, tid) = None)
      [] k = 1 -> Outcome(SetField(ags, tid, "status", a[1]), <<>>, FALSE)
      [] k = 2 -> Outcome(SetField(ags, tid, "current_phase", "done"), <<>>, FALSE)
      [] k = 3 -> Outcome(SetField(ags, tid, "current_tool", None), <<>>, FALSE)
      [] k = 4 -> Outcome(SetField(ags, tid, "current_tool_args", None), <<>>, FALSE)
      [] k = 5 -> Outcome(SetField(ags, tid, "ended_at", Some(t)), <<>>, FALSE)
      [] k = 6 -> Outcome(SetField(ags, tid, "result_summary", a[2]), <<>>, FALSE)
      [] k = 7 -> Outcome(SetField(ags, tid, "error_message", a[3]), <<>>, FALSE)
      [] k = 8 -> LET completed == Completed(ags)
                      sorted    == StableSort(completed)
                      n         == Len(completed) - maxc
                      evict     == IF Len(completed) > maxc
                                   THEN [i \in 1..n |-> sorted[i].task_id]
                                   ELSE <<>>
                  IN  Outcome(ags, evict, evict = <<>>)
      [] OTHER -> Outcome(Delete(ags, {Head(todo)}), Tail(todo), Tail(todo) = <<>>)

\* The next statement of the method o stands in.
Stmt(o, ags, t, maxc) ==
    CASE o.call.name = "register" ->
            Outcome(register(ags, SubagentInfo(o.call.tid, DEFAULT_ORIGIN, t)),
                    <<>>, TRUE)
      [] o.call.name = "update_phase" ->
            UpdatePhaseStmt(ags, o.call.tid, o.call.args, o.k)
      [] o.call.name = "mark_completed" ->
            MarkCompletedStmt(ags, o.call.tid, o.call.args, o.k, o.todo, t, maxc)
      [] OTHER -> Outcome(ags, <<>>, TRUE)

\* Mutant of YieldsAfter: mark_completed awaits after it wrote the status.
YieldsAfter_status_write(call, k) == call.name = "mark_completed" /\ k = 1

\* Whether the task gives the event loop up after statement k of a method:
\* the methods are plain def functions with no await in them.
YieldsAfter(call, k) == FALSE

\* The event loop runs a task that is ready.
Resume(c) ==
    /\ loop = None
    /\ loop' = Some(c)
    /\ UNCHANGED <<agents, max_completed, now, ended_hist, isolated, opc>>
    /\ UNCHANGED managerVars
    /\ reply' = None
    /\ UNCHANGED shown

\* The running task reaches an await outside the tracker.
Await(c) ==
    /\ loop = Some(c)
    /\ opc[c] = None
    /\ loop' = None
    /\ UNCHANGED <<agents, max_completed, now, ended_hist, isolated, opc>>
    /\ UNCHANGED managerVars
    /\ reply' = None
    /\ UNCHANGED shown

\* The running task calls a method of the tracker.
BeginOp(c, call) ==
    /\ loop = Some(c)
    /\ opc[c] = None
    /\ call \in AtomicCalls(c)
    /\ opc' = [opc EXCEPT ![c] = Some([before |-> agents, todo |-> <<>>,
                                        k |-> 0, call |-> call])]
    /\ UNCHANGED <<agents, max_completed, now, ended_hist, isolated, loop>>
    /\ UNCHANGED managerVars
    /\ reply' = None
    /\ UNCHANGED shown

\* The running task executes the next statement of the method it is inside of.
StepOp(c) ==
    /\ loop = Some(c)
    /\ opc[c] # None
    /\ LET o == opc[c][1]
           r == Stmt(o, agents, now, max_completed)
       IN  /\ agents' = r.ags
           /\ ended_hist' = IF o.call.name = "mark_completed" /\ o.k = 5
                            THEN Ended(ended_hist, agents, o.call.tid, now)
                            ELSE ended_hist
           /\ opc' = [opc EXCEPT ![c] =
                         IF r.done THEN None
                         ELSE Some([o EXCEPT !.k = o.k + 1, !.todo = r.todo])]
           /\ loop' = IF YieldsAfter(o.call, o.k) THEN None ELSE loop
    /\ UNCHANGED <<max_completed, now, isolated>>
    /\ UNCHANGED managerVars
    /\ reply' = None
    /\ UNCHANGED shown

NextAtomic ==
    \/ \E c \in Callers : Resume(c)
    \/ \E c \in Callers : Await(c)
    \/ \E c \in Callers, m \in {"register", "update_phase", "mark_completed"} \cup Reads,
          tid \in 1..AtomicIds, a \in {<<>>} \cup PhaseCalls \cup MarkCalls :
          BeginOp(c, [tid |-> tid, name |-> m, args |-> a])
    \/ \E c \in Callers : StepOp(c)

SpecAtomic == InitTracker /\ [][NextAtomic]_vars

----------------------------------------------------------------------------
(* Properties of the manager and its runner tasks, under Spec. *)

\* The task of runner r is over: it returned or an exception left it.
TaskOver(r) == pc[r] \in {"finished", "raised", "done", "done_raised"}

\* The announcements the task of runner r published.
Published(r) == {i \in DOMAIN bus : bus[i].by = r}

\* The provider call or a tool execution of runner r failed: the except
\* clause ran without the try block having reached its mark_completed.
LoopFailed(r) == error_msg[r] # None /\ final_result[r] = None

\* s starts with "Error".
StartsWithError(s) == Len(s) >= 5 /\ SubSeq(s, 1, 5) = SubSeq(ERROR_PREFIX, 1, 5)

\* C1: on every exit path of a runner, a failing bus publish included, exactly
\* one announcement is published for it: never two at any time, and one once
\* its task is over.
C1_ExactlyOneAnnouncement ==
    \A r \in Runners :
        /\ Cardinality(Published(r)) <= 1
        /\ TaskOver(r) => Cardinality(Published(r)) = 1

\* C2: when the provider call or a tool execution of a runner failed, its
\* record is Errored with a non-empty error message, no exception leaves the
\* task, and once the task is over an announcement with "Error" is on the bus.
C2_FailureIsErroredAndAnnounced ==
    \A r \in Runners :
        LoopFailed(r) =>
            LET g == get(agents, task_id[r][1])
            IN  /\ g # None
                /\ g[1].status = "error"
                /\ TruthyText(g[1].error_message)
                /\ pc[r] \notin {"raised", "done_raised"}
                /\ TaskOver(r) =>
                     \E i \in Published(r) : StartsWithError(bus[i].result)

\* C3: the status of a record is monotonic: a record that is Completed or
\* Errored keeps its status in every step that keeps the record.
C3_StatusMonotonic ==
    [][\A i \in DOMAIN agents :
          (agents[i].status \in Terminal /\ agents[i].task_id \in Keys(agents'))
              => get(agents', agents[i].task_id)[1].status = agents[i].status]_vars

\* C4: from the return of spawn until the runner's task first runs, the
\* record is in the tracker, Running, in phase Starting, at iteration 0, with
\* no tool used, and the runner has made no step of its loop.
C4_RegisteredBeforeRun ==
    \A r \in Runners :
        pc[r] = "created" =>
            LET g == get(agents, task_id[r][1])
            IN  /\ g # None
                /\ g[1].status = "running"
                /\ g[1].current_phase = "starting"
                /\ g[1].iteration = 0
                /\ g[1].tools_used = <<>>
                /\ g[1].ended_at = None
                /\ iteration[r] = 0
                /\ Published(r) = {}

\* Witness of C4: spawn has returned for a runner whose task has not run,
\* and its record is found.
C4_Witness ==
    \E r \in Runners : pc[r] = "created" /\ get(agents, task_id[r][1]) # None

----------------------------------------------------------------------------
(* Properties of the tracker, under SpecTracker and SpecPrune. *)

\* The number of records that are not running.
CompletedCount(ags) == Cardinality({i \in DOMAIN ags : ags[i].status # "running"})

\* The ids whose ended_at was written in this step.
MarkedNow == {p[1] : p \in ended_hist' \ ended_hist}

\* Ids that had a record which was pruned.
Pruned == {p[1] : p \in ended_hist} \ Keys(agents)

\* C5: before and after every step the number of records that are not
\* running is at most max_completed, and a step never takes it below
\* max_completed once it is there: pruning evicts down to exactly
\* max_completed.
C5_CompletedBounded ==
    [][/\ CompletedCount(agents) <= max_completed
       /\ CompletedCount(agents') <= max_completed
       /\ CompletedCount(agents) = max_completed
            => CompletedCount(agents') = max_completed]_vars

\* Witness of C5: a completion pushed the count over max_completed and a
\* record was evicted, with max_completed records that are not running left.
C5_Witness ==
    /\ max_completed >= 1
    /\ Pruned # {}
    /\ CompletedCount(agents) = max_completed

\* C6: a record that is Running, and that the step does not mark completed,
\* is still in the tracker and Running after the step.
C6_RunningNeverPruned ==
    [][\A i \in DOMAIN agents :
          (agents[i].status = "running" /\ agents[i].task_id \notin MarkedNow)
              => /\ get(agents', agents[i].task_id) # None
                 /\ get(agents', agents[i].task_id)[1].status = "running"]_vars

\* Witness of C6: a running record outlived the eviction of a record that
\* was registered after it.
C6_Witness ==
    \E i \in DOMAIN agents :
        /\ agents[i].status = "running"
        /\ \E tid \in Pruned : tid > agents[i].task_id

\* The end times written so far are pairwise different.
DistinctEnds == \A p, q \in ended_hist : p[2] = q[2] => p = q

\* The ids of the k completions with the latest end.
LatestEnded(k) ==
    {p[1] : p \in {q \in ended_hist :
                     Cardinality({x \in ended_hist : x[2] > q[2]}) < k}}

\* C7: when more than max_completed records have been completed, at pairwise
\* different end times, the records kept that are not running are the
\* max_completed ones that ended last; with no record running get_all
\* returns exactly max_completed records.
C7_KeepsLatestEnded ==
    (Cardinality(ended_hist) > max_completed /\ DistinctEnds) =>
        /\ Keys(Completed(agents)) = LatestEnded(max_completed)
        /\ get_running(agents) = <<>> => Len(get_all(agents)) = max_completed

\* Witness of C7: three records completed one after another with one kept.
C7_Witness ==
    /\ max_completed = 1
    /\ Cardinality(ended_hist) = 3
    /\ DistinctEnds
    /\ get_running(agents) = <<>>
    /\ Len(get_all(agents)) = 1

\* C8: a step that is update_phase or mark_completed for an id with no record
\* leaves the tracker as it was: no record added, removed or changed.
C8_UnknownIdIsNoop ==
    [][\A tid \in 1..TrackerIds :
          (/\ tid \notin Keys(agents)
           /\ \/ \E c \in PhaseCalls : CallUpdatePhase(tid, c[1], c[2], c[3], c[4])
              \/ \E c \in MarkCalls : CallMarkCompleted(tid, c[1], c[2], c[3]))
              => UNCHANGED <<agents, ended_hist>>]_vars

\* Witness of C8: the tracker holds a record while the id of a pruned record
\* is unknown to it, so that the calls for that id are steps taken here.
C8_Witness ==
    /\ agents # <<>>
    /\ Pruned # {}
    /\ \E tid \in 1..TrackerIds : tid \notin Keys(agents)

\* C9: under every interleaving of update_phase and mark_completed calls over
\* the ids, no call made for one id has changed a field of the record of
\* another id, or removed the record of another id that was running: the
\* only effect across records is the pruning of records that are not running.
C9_OtherRecordsUntouched == isolated

\* Witness of C9: two records, one brought to tool_running by its calls while
\* the other is still as registered.
C9_Witness ==
    \E i, j \in DOMAIN agents :
        /\ agents[i].current_phase = "tool_running"
        /\ agents[i].tools_used # <<>>
        /\ agents[j] = SubagentInfo(agents[j].task_id, DEFAULT_ORIGIN,
                                    agents[j].started_at)

----------------------------------------------------------------------------
(* Properties of the tracker statement by statement, under SpecAtomic. *)

\* What a reader may rely on between two operations: a record has an end
\* exactly when its status is terminal, a terminal record is idle, a tool is
\* recorded with its arguments and as the last tool used, and the records
\* that are not running are at most max_completed.
Consistent(ags) ==
    /\ \A i \in DOMAIN ags :
          /\ (ags[i].status \in Terminal) <=> (ags[i].ended_at # None)
          /\ (ags[i].current_tool = None) <=> (ags[i].current_tool_args = None)
          /\ ags[i].current_tool # None =>
                /\ ags[i].tools_used # <<>>
                /\ ags[i].tools_used[Len(ags[i].tools_used)] = ags[i].current_tool[1]
    /\ CompletedCount(ags) <= max_completed

\* The method call taken as one step from the dict it began on.
AtomicResult(o) ==
    CASE o.call.name = "register" ->
            register(o.before, SubagentInfo(o.call.tid, DEFAULT_ORIGIN, now))
      [] o.call.name = "update_phase" ->
            update_phase(o.before, o.call.tid, o.call.args[1], o.call.args[2],
                         o.call.args[3], o.call.args[4])
      [] o.call.name = "mark_completed" ->
            mark_completed(o.before, o.call.tid, o.call.args[1], o.call.args[2],
                           o.call.args[3], now, max_completed)
      [] OTHER -> o.before

\* No context but c can take a step while c is inside a tracker method.
Exclusive ==
    \A c \in Callers : opc[c] # None => loop = Some(c)

\* C10: every tracker operation is atomic with respect to the others: while a
\* context is inside an operation no other context can take a step; an
\* operation that returns leaves the dict as the whole operation applied to
\* the dict it began on; and the dict on which an operation (a read included)
\* begins is consistent, never a partially applied update.
C10_OperationsAtomic ==
    [][/\ Exclusive
       /\ Exclusive'
       /\ \A c \in Callers :
             /\ (opc[c] # None /\ opc'[c] = None) => agents' = AtomicResult(opc[c][1])
             /\ (opc[c] = None /\ opc'[c] # None) => Consistent(agents)]_vars

\* Witness of C10: a context is inside mark_completed with the status written
\* and the pruning to come, the records that are not running being more than
\* max_completed, while another context has work to do.
C10_Witness ==
    \E c \in Callers :
        /\ opc[c] # None
        /\ opc[c][1].call.name = "mark_completed"
        /\ opc[c][1].k = 8
        /\ CompletedCount(agents) > max_completed
        /\ ~Consistent(agents)
        /\ AtomicCalls(0) # {}

----------------------------------------------------------------------------
(* Invariants of the record. *)

\* C11: every record that is not running has exactly one of result_summary
\* and error_message non-empty: a completed record a non-empty result_summary
\* and no error_message, an errored record the converse, whatever text the
\* provider returns and whatever message a failure carries.
C11_ExactlyOneOutcomeText ==
    \A i \in DOMAIN agents :
        /\ agents[i].status = "completed" =>
              /\ TruthyText(agents[i].result_summary)
              /\ ~TruthyText(agents[i].error_message)
        /\ agents[i].status = "error" =>
              /\ TruthyText(agents[i].error_message)
              /\ ~TruthyText(agents[i].result_summary)

\* C12: for every record of the tracker, ended_at is set exactly when the
\* status is not running.
C12_EndedIffNotRunning ==
    \A i \in DOMAIN agents :
        (agents[i].ended_at # None) <=> (agents[i].status # "running")

\* Witness of C12: the tracker holds a record that was marked and has its end
\* beside a record that is running and has none.
C12_Witness ==
    \E i, j \in DOMAIN agents :
        /\ agents[i].status \in Terminal
        /\ agents[i].ended_at # None
        /\ agents[j].status = "running"
        /\ agents[j].ended_at = None

\* C13: after every mutation of the tracker by register, update_phase (any of
\* the four phases, the tool_running calls carrying a tool name and arguments)
\* and mark_completed, current_tool and current_tool_args of a record are set
\* exactly when its current_phase is tool_running.
C13_ToolSetIffToolRunning ==
    \A i \in DOMAIN agents :
        /\ (agents[i].current_tool # None) <=> (agents[i].current_phase = "tool_running")
        /\ (agents[i].current_tool_args # None) <=> (agents[i].current_phase = "tool_running")

\* C14: for every record made by spawn and driven by its runner, the
\* iteration is between 0 and max_iterations in every state and is never
\* smaller after a step than before it.
C14_IterationBoundedMonotonic ==
    [][\A i \in DOMAIN agents' :
          /\ 0 <= agents'[i].iteration
          /\ agents'[i].iteration <= agents'[i].max_iterations
          /\ agents'[i].max_iterations = max_iterations
          /\ agents'[i].task_id \in Keys(agents) =>
                get(agents, agents'[i].task_id)[1].iteration <= agents'[i].iteration]_vars

\* Witness of C14: a runner waits for the provider in its last iteration.
C14_Witness ==
    \E r \in Runners :
        /\ pc[r] = "chat"
        /\ get(agents, task_id[r][1]) # None
        /\ get(agents, task_id[r][1])[1].iteration = max_iterations

\* s is a prefix of t.
IsPrefix(s, t) == Len(s) <= Len(t) /\ SubSeq(t, 1, Len(s)) = s

\* C15: tools_used is an append-only log of the tool names passed: a step that
\* is update_phase(tid, "tool_running", tool_name=t) on a registered id leaves
\* tools_used of its record as it was with t appended, and no step removes or
\* reorders an entry of a record it keeps.
C15_ToolsUsedIsTheLog ==
    [][\A tid \in Keys(agents) :
          /\ \A c \in ApiPhaseCalls :
                (/\ c[1] = "tool_running"
                 /\ c[3] # None
                 /\ CallUpdatePhase(tid, c[1], c[2], c[3], c[4]))
                    => get(agents', tid)[1].tools_used
                         = Append(get(agents, tid)[1].tools_used, c[3][1])
          /\ tid \in Keys(agents') =>
                IsPrefix(get(agents, tid)[1].tools_used,
                         get(agents', tid)[1].tools_used)]_vars

\* The text mark_completed is to store for a text passed, cut to the preview.
Preview(o) == IF o = None THEN None ELSE Some(Take(o[1], PREVIEW_LEN))

\* C17: mark_completed truncates at write time: a step that is
\* mark_completed(tid, status, summary, error) on a registered id stores the
\* first PREVIEW_LEN units of the texts passed, and no record holds a
\* result_summary or an error_message longer than PREVIEW_LEN.
C17_StoredTextIsPreview ==
    [][/\ \A tid \in Keys(agents) \cap Keys(agents'), c \in ApiMarkCalls :
             CallMarkCompleted(tid, c[1], c[2], c[3]) =>
                 /\ get(agents', tid)[1].result_summary = Preview(c[2])
                 /\ get(agents', tid)[1].error_message = Preview(c[3])
       /\ \A i \in DOMAIN agents' :
             /\ agents'[i].result_summary # None =>
                   Len(agents'[i].result_summary[1]) <= PREVIEW_LEN
             /\ agents'[i].error_message # None =>
                   Len(agents'[i].error_message[1]) <= PREVIEW_LEN]_vars

\* The record a is as mark_completed(status, summary, error) leaves it.
Marked(a, status, summary, error) ==
    /\ a.status = status
    /\ a.current_phase = "done"
    /\ a.ended_at # None
    /\ a.current_tool = None
    /\ a.current_tool_args = None
    /\ a.result_summary = summary
    /\ a.error_message = error

\* The dict after mark_completed(tid, c) called in the current state.
AfterMark(tid, c) ==
    mark_completed(agents, tid, c[1], c[2], c[3], now, max_completed)

\* C16 as stated: in every state the tracker reaches, for every registered id
\* in whatever phase its record is, after mark_completed(tid, status, summary,
\* error) the tracker holds the record of tid with that status, phase done, an
\* end, no current tool and no arguments, and the texts passed.
C16_MarkedAndHeld ==
    \A tid \in Keys(agents), c \in MarkCalls :
        /\ tid \in Keys(AfterMark(tid, c))
        /\ Marked(get(AfterMark(tid, c), tid)[1], c[1], c[2], c[3])

\* C16 amended: after such a call the record of tid, unless the pruning of
\* that very call evicted it (the records that are not running being then
\* max_completed), has that status, phase done, an end, no current tool and
\* no arguments, and the texts passed.
C16_MarkedUnlessPruned ==
    \A tid \in Keys(agents), c \in MarkCalls :
        IF tid \in Keys(AfterMark(tid, c))
        THEN Marked(get(AfterMark(tid, c), tid)[1], c[1], c[2], c[3])
        ELSE CompletedCount(AfterMark(tid, c)) = max_completed

\* Witness of C16: a record that ran a tool was marked completed with a
\* summary and is held with no current tool.
C16_Witness ==
    \E i \in DOMAIN agents :
        /\ agents[i].tools_used # <<>>
        /\ Marked(agents[i], "completed", Some(TEXT_OK), None)

\* C18: ended_at and the outcome text are written once, at the step from
\* running to a terminal status: a record that is Completed or Errored keeps
\* its ended_at, result_summary and error_message in every step that keeps
\* the record.
C18_OutcomeWrittenOnce ==
    [][\A i \in DOMAIN agents :
          (agents[i].status \in Terminal /\ agents[i].task_id \in Keys(agents'))
              => LET after == get(agents', agents[i].task_id)[1]
                 IN  /\ after.ended_at = agents[i].ended_at
                     /\ after.result_summary = agents[i].result_summary
                     /\ after.error_message = agents[i].error_message]_vars

\* Runner r left its loop by exhaustion: each of its max_iterations requests
\* was answered with tool calls, the tools were executed, and neither the
\* provider, a tool nor the bus raised.
LoopExhausted(r) ==
    /\ served[r].tool_responses = max_iterations
    /\ served[r].failures = 0
    /\ pc[r] # "tool"

\* C19: a runner issues at most max_iterations provider requests; when all of
\* them were answered with tool calls it stops: its record is Completed at
\* iteration max_iterations, and the result, stored and announced, is the
\* placeholder text.
C19_ExhaustionIsCompleted ==
    \A r \in Runners :
        /\ served[r].requests <= max_iterations
        /\ LoopExhausted(r) =>
              LET g == get(agents, task_id[r][1])
              IN  /\ served[r].requests = max_iterations
                  /\ g # None
                  /\ g[1].status = "completed"
                  /\ g[1].iteration = max_iterations
                  /\ g[1].result_summary = Some(Take(PLACEHOLDER, PREVIEW_LEN))
                  /\ g[1].error_message = None
                  /\ error_msg[r] = None
                  /\ final_result[r] = Some(PLACEHOLDER)
                  /\ \A i \in Published(r) : bus[i].result = PLACEHOLDER

\* Witness of C19: a runner exhausted its iterations and announced the
\* placeholder.
C19_Witness ==
    \E r \in Runners :
        /\ LoopExhausted(r)
        /\ pc[r] = "done"
        /\ Published(r) # {}

\* Runner r was answered with tool calls n < max_iterations times, then
\* without tool calls; neither the provider, a tool nor the bus raised, and
\* its task is over.
Answered(r) ==
    /\ served[r].tool_responses < max_iterations
    /\ served[r].failures = 0
    /\ TaskOver(r)

\* C20: for a runner answered n < max_iterations times with tool calls, c
\* calls in all that executed, and then with a text: once its task is over
\* the tracker holds one record for it, Completed, at iteration n + 1, with
\* tools_used of length c, and exactly one message, addressed to its origin,
\* is on the bus.
C20_ToolCallsThenAnswer ==
    \A r \in Runners :
        Answered(r) =>
            /\ Cardinality({i \in DOMAIN agents :
                               agents[i].task_id = task_id[r][1]}) = 1
            /\ LET a == get(agents, task_id[r][1])[1]
               IN  /\ a.status = "completed"
                   /\ a.iteration = served[r].tool_responses + 1
                   /\ Len(a.tools_used) = served[r].tool_calls
            /\ Cardinality(Published(r)) = 1
            /\ \A i \in Published(r) : bus[i].chat_id = origin[r][1]

\* Witness of C20: one response with tool calls, then the answer: the record
\* is at iteration 2 with its tools, and the message is on the bus.
C20_Witness ==
    \E r \in Runners :
        /\ Answered(r)
        /\ served[r].tool_responses = 1
        /\ served[r].tool_calls > 0
        /\ final_result[r] = Some(TEXT_OK)
        /\ get(agents, task_id[r][1])[1].iteration = 2
        /\ Published(r) # {}

----------------------------------------------------------------------------
(* Properties of several spawns in one process, under SpecFleet. *)

\* C21: every runner gets an id no earlier spawn produced: no two spawned
\* runners have the same id, and the record under the id of a runner is the
\* one its own spawn registered (no later spawn has overwritten it).
C21_IdsNeverReused ==
    \A r, q \in DOMAIN pc :
        (r # q /\ task_id[r] # None /\ task_id[q] # None)
            => task_id[r] # task_id[q]

----------------------------------------------------------------------------
(* cli/activity.py: truncate.  A str is the sequence of its characters. *)

\* Python's index normalisation of a slice bound i on a sequence of length n.
SliceIndex(i, n) == IF i < 0 THEN (IF i + n < 0 THEN 0 ELSE i + n) ELSE Min(i, n)

\* s[i:] and s[:i]
SliceFrom(s, i) == SubSeq(s, SliceIndex(i, Len(s)) + 1, Len(s))
SliceTo(s, i) == SubSeq(s, 1, SliceIndex(i, Len(s)))

ELLIPSIS == <<".", ".", ".">>

\* "/" in value or "\\" in value
HasSeparator(value) == \E i \in DOMAIN value : value[i] \in {"/", "\\"}

\* Mutant of truncate: a value with a separator keeps its head too.
truncate_head_only(value, max_len) ==
    IF Len(value) <= max_len
    THEN value
    ELSE SliceTo(value, max_len - 3) \o ELLIPSIS

\* truncate(value, max_len)
truncate(value, max_len) ==
    IF Len(value) <= max_len
    THEN value
    ELSE IF HasSeparator(value)
    THEN ELLIPSIS \o SliceFrom(value, 0 - (max_len - 3))
    ELSE SliceTo(value, max_len - 3) \o ELLIPSIS

(* SpecTruncate: truncate called once, on any value of up to MaxValueLen
   characters and any budget up to MaxBudget. *)

Chars == {"a", "b", "/", "\\"}

RECURSIVE Strings(_)
Strings(n) ==
    IF n = 0
    THEN {<<>>}
    ELSE LET shorter == Strings(n - 1)
         IN  shorter \cup {Append(s, c) : s \in shorter, c \in Chars}

InitTruncate ==
    /\ agents = <<>>
    /\ max_completed = DEFAULT_MAX_COMPLETED
    /\ now = 0
    /\ ended_hist = {}
    /\ pc = [r \in Runners |-> "unborn"]
    /\ task_id = [r \in Runners |-> None]
    /\ origin = [r \in Runners |-> None]
    /\ iteration = [r \in Runners |-> 0]
    /\ pending = [r \in Runners |-> <<>>]
    /\ final_result = [r \in Runners |-> None]
    /\ error_msg = [r \in Runners |-> None]
    /\ bus = <<>>
    /\ running_tasks = {}
    /\ served = [r \in Runners |->
                    [requests |-> 0, tool_responses |-> 0, tool_calls |-> 0,
                     failures |-> 0]]
    /\ isolated = TRUE
    /\ reply = None
    /\ loop = None
    /\ opc = [c \in 0..AtomicIds |-> None]
    /\ shown \in {Some([value |-> v, max_len |-> n, out |-> None]) :
                     v \in Strings(MaxValueLen), n \in 0..MaxBudget}

\* out = truncate(value, max_len)
Truncate ==
    /\ shown[1].out = None
    /\ shown' = Some([shown[1] EXCEPT
                         !.out = Some(truncate(shown[1].value, shown[1].max_len))])
    /\ UNCHANGED <<agents, max_completed, now, ended_hist, isolated, reply>>
    /\ UNCHANGED managerVars
    /\ UNCHANGED atomVars

NextTruncate == Truncate

SpecTruncate == InitTruncate /\ [][NextTruncate]_vars

----------------------------------------------------------------------------
(* Properties of the status tool and of the reads, under SpecStatus. *)

\* The results of the four reads of the tracker, with get taken at every id.
TrackerReads(ags) ==
    <<[tid \in 0..StatusIds |-> get(ags, tid)], get_all(ags), get_running(ags),
      get_running_count(ags)>>

\* A status query leaves the tracker as it is.
QueryWritesNothing ==
    reply' # None => (agents' = agents /\ max_completed' = max_completed)

\* The call c of the status tool shows the elapsed time of a running record.
ShowsRunningTime(c) ==
    \/ c[1] = "list" /\ get_running(agents) # <<>>
    \/ /\ c[1] = "detail"
       /\ c[2] # None
       /\ get(agents, c[2][1]) # None
       /\ get(agents, c[2][1])[1].status = "running"

\* C22 as stated: the reads never mutate, and repeated calls with no write
\* in between return identical results: a status query leaves the tracker and
\* its records unchanged, and a step that writes nothing to the tracker
\* leaves the result of every read of the tracker and of every call of the
\* status tool as it was.
C22_ReadsPureAndRepeatable ==
    [][/\ QueryWritesNothing
       /\ agents' = agents =>
             /\ TrackerReads(agents') = TrackerReads(agents)
             /\ \A c \in StatusCalls :
                   execute(agents', c[1], c[2], now')
                       = execute(agents, c[1], c[2], now)]_vars

\* C22 amended: the reads never mutate; absent a write the four reads of the
\* tracker return identical results, and so does every call of the status
\* tool that shows no elapsed time of a running record (all, detail of a
\* record that is not running, the fixed texts), or that is repeated at the
\* same reading of the clock.
C22_ReadsPureRepeatableButTime ==
    [][/\ QueryWritesNothing
       /\ agents' = agents =>
             /\ TrackerReads(agents') = TrackerReads(agents)
             /\ \A c \in StatusCalls :
                   (now' = now \/ ~ShowsRunningTime(c)) =>
                       execute(agents', c[1], c[2], now')
                           = execute(agents, c[1], c[2], now)]_vars

\* Witness of C22: the status tool has just answered a query, after the clock
\* moved, on a tracker that holds a running record and one that is not.
C22_Witness ==
    /\ reply # None
    /\ now > 0
    /\ \E i, j \in DOMAIN agents :
          agents[i].status = "running" /\ agents[j].status # "running"

\* The fixed texts of the status tool for a call it cannot serve.
RefusalTexts ==
    {Text(ID_REQUIRED, <<>>, <<>>)}
    \cup {Text(UNKNOWN_ACTION, <<a>>, <<>>) : a \in {c[1] : c \in StatusCalls}}
    \cup {Text(NOT_FOUND, <<i>>, <<>>) : i \in 1..StatusIds}

\* The status tool was called with bad input: an action outside list, detail
\* and all, or detail without an id or with an id the tracker does not hold.
BadInput(ags, c) ==
    \/ c.action \notin {"list", "detail", "all"}
    \/ /\ c.action = "detail"
       /\ \/ c.task_id = None
          \/ c.task_id = Some(EMPTY_ID)
          \/ c.task_id[1] \notin Keys(ags)

\* C26: the status tool never fails for bad input: in every tracker state an
\* action outside list, detail and all is answered by the "Unknown action"
\* text, detail without a task id by the "task_id is required" text, and
\* detail of an id that is not in the tracker (never registered, or pruned)
\* by the "No subagent found" text; the answer is one of the fixed texts and
\* the tracker is left unchanged.
C26_BadInputAnswered ==
    [][(reply' # None /\ BadInput(agents, reply'[1])) =>
          LET c == reply'[1]
          IN  /\ agents' = agents /\ max_completed' = max_completed
              /\ c.text \in RefusalTexts
              /\ c.action \notin {"list", "detail", "all"} =>
                     c.text = Text(UNKNOWN_ACTION, <<c.action>>, <<>>)
              /\ (c.action = "detail"
                    /\ (c.task_id = None \/ c.task_id = Some(EMPTY_ID))) =>
                     c.text = Text(ID_REQUIRED, <<>>, <<>>)
              /\ (c.action = "detail" /\ c.task_id # None
                    /\ c.task_id # Some(EMPTY_ID)) =>
                     c.text = Text(NOT_FOUND, <<c.task_id[1]>>, <<>>)]_vars

\* Witness of C26: detail was asked of an id whose record ended and has been
\* pruned, while the tracker holds another record, and the answer is the
\* "No subagent found" text.
C26_Witness ==
    /\ reply # None
    /\ reply[1].action = "detail"
    /\ reply[1].task_id # None
    /\ reply[1].task_id # Some(EMPTY_ID)
    /\ reply[1].task_id[1] \in {p[1] : p \in ended_hist} \ Keys(agents)
    /\ agents # <<>>
    /\ reply[1].text.kind = NOT_FOUND

\* The ids of the entries of a text of the status tool, in their order.
EntryIds(text) ==
    LET entries == SelectSeq(text.lines, LAMBDA l : l[1] = "-")
    IN  [i \in DOMAIN entries |-> entries[i][2]]

\* The ids of the records of ags that are running.
RunningIds(ags) ==
    {ags[i].task_id : i \in {j \in DOMAIN ags : ags[j].status = "running"}}

\* C27: in every tracker state the list action has one entry for each record
\* that is running and none for any other (the "No subagents currently
\* running." text when there is none) and the count it reports is that of
\* get_running_count; the all action has one entry for each tracked record,
\* and no entry of a running record comes after that of a record that is
\* completed or failed.
C27_ListAndAllEnumerate ==
    LET listed == execute(agents, "list", None, now)
        every == execute(agents, "all", None, now)
        ids == EntryIds(every)
    IN  /\ RunningIds(agents) = {} <=> listed = Text(NO_RUNNING, <<>>, <<>>)
        /\ RunningIds(agents) # {} =>
               /\ listed.head = <<get_running_count(agents)>>
               /\ Len(EntryIds(listed)) = get_running_count(agents)
               /\ Len(EntryIds(listed)) = Cardinality(RunningIds(agents))
               /\ {EntryIds(listed)[i] : i \in DOMAIN EntryIds(listed)}
                      = RunningIds(agents)
        /\ agents = <<>> <=> every = Text(NO_TRACKED, <<>>, <<>>)
        /\ Len(ids) = Cardinality(Keys(agents))
        /\ {ids[i] : i \in DOMAIN ids} = Keys(agents)
        /\ \A i, j \in DOMAIN ids :
               (i < j /\ ids[j] \in RunningIds(agents)) =>
                   ids[i] \in RunningIds(agents)
        /\ reply # None /\ reply[1].action = "list" => reply[1].text = listed
        /\ reply # None /\ reply[1].action = "all" => reply[1].text = every

\* Witness of C27: the all action has just answered on a tracker whose first
\* record has ended and whose second is running, and lists the second first.
C27_Witness ==
    /\ reply # None
    /\ reply[1].action = "all"
    /\ Len(agents) = 2
    /\ agents[1].status # "running"
    /\ agents[2].status = "running"
    /\ EntryIds(reply[1].text) = <<agents[2].task_id, agents[1].task_id>>

\* The record of tid before and after the step, when the step keeps it: the
\* key is tracked on both sides with the same started_at.
Kept(tid) ==
    /\ tid \in Keys(agents) \cap Keys(agents')
    /\ get(agents', tid)[1].started_at = get(agents, tid)[1].started_at

\* The elapsed time of a record is never negative; while the record is
\* running it is the clock minus started_at and does not decrease from one
\* step to the next; once the record has ended it is ended_at minus
\* started_at.
ElapsedFollowsClock ==
    \A tid \in {i \in 1..StatusIds : Kept(i)} :
        LET a == get(agents, tid)[1]
            b == get(agents', tid)[1]
        IN  /\ elapsed_seconds(a, now) >= 0
            /\ elapsed_seconds(b, now') >= 0
            /\ a.status = "running" =>
                   elapsed_seconds(a, now) = now - a.started_at
            /\ (a.status = "running" /\ b.status = "running") =>
                   elapsed_seconds(b, now') >= elapsed_seconds(a, now)
            /\ a.status # "running" =>
                   /\ a.ended_at # None
                   /\ elapsed_seconds(a, now) = a.ended_at[1] - a.started_at

\* The elapsed time of a record that has ended is the same after the step.
ElapsedOfEndedFixed ==
    \A tid \in {i \in 1..StatusIds : Kept(i)} :
        LET a == get(agents, tid)[1]
            b == get(agents', tid)[1]
        IN  (a.status # "running" /\ b.status # "running") =>
                elapsed_seconds(b, now') = elapsed_seconds(a, now)

\* C28: with a clock that never goes backwards the elapsed time of a record
\* is never negative, is the clock minus started_at and does not decrease
\* over successive reads while the record is running, and once the record
\* has ended is ended_at minus started_at and no longer changes from one
\* read to the next.
C28_ElapsedTime ==
    [][now' >= now /\ ElapsedFollowsClock /\ ElapsedOfEndedFixed]_vars

\* The part of C28 that the second mark_completed leaves standing.
ElapsedFollowsClockAlways == [][now' >= now /\ ElapsedFollowsClock]_vars

\* The string r is value cut to the budget max_len as the claim has it.
CutTo(r, value, max_len) ==
    /\ Len(r) <= max_len
    /\ IF HasSeparator(value)
       THEN \E k \in 0..Len(value) :
               r = ELLIPSIS \o SubSeq(value, Len(value) - k + 1, Len(value))
       ELSE \E k \in 0..Len(value) :
               r = SubSeq(value, 1, k) \o ELLIPSIS

\* C29: for every string value and every budget max_len, truncate returns
\* value unchanged when its length is at most max_len, and otherwise a string
\* of length at most max_len that is "..." followed by the tail of value
\* when value has a path separator, or the head of value followed by "..."
\* when it has none.
C29_TruncateWithinBudget ==
    (shown # None /\ shown[1].out # None) =>
        LET c == shown[1]
        IN  IF Len(c.value) <= c.max_len
            THEN c.out[1] = c.value
            ELSE CutTo(c.out[1], c.value, c.max_len)

\* The part of C29 that holds: the same, for the budgets of at least 4.
TruncateWithinRoomyBudget ==
    (shown # None /\ shown[1].out # None /\ shown[1].max_len >= 4) =>
        LET c == shown[1]
        IN  IF Len(c.value) <= c.max_len
            THEN c.out[1] = c.value
            ELSE /\ CutTo(c.out[1], c.value, c.max_len)
                 /\ Len(c.out[1]) = c.max_len

----------------------------------------------------------------------------
(* Further properties of the runner, under Spec and SpecFleet. *)

\* C23: there is no retry: once the provider call or a tool execution of a
\* runner has failed, the runner waits for no provider response and no tool
\* any more (the remaining tool calls of the response are dropped), its
\* record is Errored, and it reports once: never twice, and once when its
\* task is over.
C23_NoRetryReportsOnce ==
    \A r \in Runners :
        LoopFailed(r) =>
            /\ pc[r] \notin {"chat", "tool"}
            /\ served[r].failures >= 1
            /\ get(agents, task_id[r][1]) # None
            /\ get(agents, task_id[r][1])[1].status = "error"
            /\ Cardinality(Published(r)) <= 1
            /\ TaskOver(r) => Cardinality(Published(r)) = 1

C25_AddressedToOrigin ==
    [][/\ \A r \in Fleet :
             pc[r] # "unborn" => origin'[r] = origin[r]
       /\ \A i \in DOMAIN bus' :
             /\ origin'[bus'[i].by] # None
             /\ bus'[i].chat_id = origin'[bus'[i].by][1]
             /\ bus'[i].channel = "system"]_vars

\* Witness of C25: two runners spawned with different origins were in flight
\* together and announced in the order opposite to that of their spawns.
C25_Witness ==
    /\ Len(bus) = 2
    /\ bus[1].by = 2 /\ bus[2].by = 1
    /\ origin[1] # origin[2]
    /\ bus[1].chat_id = origin[2][1] /\ bus[2].chat_id = origin[1][1]

----------------------------------------------------------------------------
(* The order of eviction, under SpecPruneOrder. *)

\* C30: when pruning has to choose among records that are not running and
\* have the same ended_at, the record with the earlier started_at is evicted
\* first, whatever the order of the registrations: a step that evicts a
\* record and keeps one that ended at the same instant keeps none that
\* started earlier than the evicted one.
C30_TiesBrokenByStart ==
    [][\A x \in Keys(agents) \ Keys(agents'), j \in DOMAIN agents' :
          (/\ agents'[j].status # "running"
           /\ <<x, agents'[j].ended_at[1]>> \in ended_hist') =>
              get(agents, x)[1].started_at <= agents'[j].started_at]_vars

----------------------------------------------------------------------------
(* What removes a record, under SpecTracker. *)

\* In the tracker ags no register and no update_phase call removes an id.
NothingRemovedFrom(ags, t) ==
    /\ \A tid \in 1..TrackerIds :
           Keys(register(ags, SubagentInfo(tid, DEFAULT_ORIGIN, t)))
               = Keys(ags) \cup {tid}
    /\ \A tid \in 1..TrackerIds, c \in PhaseCalls :
           Keys(update_phase(ags, tid, c[1], c[2], c[3], c[4])) = Keys(ags)

\* A step that removes ids is a mark_completed that wrote an ended_at: the
\* records removed are not running at that point, and those left that are
\* not running are max_completed, as many as may stay; so they were more
\* than max_completed before the removal.
RemovalIsPruning ==
    Keys(agents) \ Keys(agents') # {} =>
        /\ ended_hist' # ended_hist
        /\ \A x \in Keys(agents) \ Keys(agents') :
               \E p \in ended_hist' : p[1] = x
        /\ Len(Completed(agents')) = max_completed

\* C31: records leave the tracker only through the pruning step of
\* mark_completed: register and update_phase never remove an id from the
\* mapping (the reads are functions of it and write nothing), and a
\* mark_completed that leaves the records that are not running at or below
\* max_completed removes nothing.
C31_RemovedOnlyByPruning ==
    /\ []NothingRemovedFrom(agents, now)
    /\ [][RemovalIsPruning]_vars

\* Witness of C31: a record was marked completed and stays, with max_completed
\* records not running, next to a running one, and no record was removed.
C31_Witness ==
    /\ max_completed = 1
    /\ Len(Completed(agents)) = 1
    /\ get_running_count(agents) = 1
    /\ Seen = Keys(agents)

----------------------------------------------------------------------------
(* The phases of a runner's record, under Spec. *)

\* The phase steps of the loop that go on: from a to b the record went from
\* starting to thinking of iteration 1, from thinking to tool_running or
\* from one tool to the next within the iteration, or from tool_running to
\* thinking of the next iteration.
LoopStep(a, b) ==
    \/ /\ a.current_phase = "starting" /\ b.current_phase = "thinking"
       /\ a.iteration = 0 /\ b.iteration = 1
    \/ /\ a.current_phase = "thinking" /\ b.current_phase = "tool_running"
       /\ b.iteration = a.iteration
    \/ /\ a.current_phase = "tool_running" /\ b.current_phase = "tool_running"
       /\ b.iteration = a.iteration
    \/ /\ a.current_phase = "tool_running" /\ b.current_phase = "thinking"
       /\ b.iteration = a.iteration + 1

\* The phase steps that end: to done with a terminal status, the iteration
\* kept, from the phases of froms; and from done to done only.
EndStep(a, b, froms) ==
    /\ b.current_phase = "done"
    /\ b.status \in Terminal
    /\ b.iteration = a.iteration
    /\ a.current_phase \in froms \cup {"done"}

\* Every step that changes the record of a runner is a LoopStep, or an
\* EndStep from one of the phases of froms; and the runner's own iteration
\* is the one of its record while it waits for the provider or a tool.
PhasesFollow(froms) ==
    \A r \in Runners :
        (task_id[r] # None /\ task_id'[r] = task_id[r]) =>
            LET a == get(agents, task_id[r][1])
                b == get(agents', task_id[r][1])
            IN  /\ (a # None /\ b # None /\ a[1] # b[1]) =>
                       (LoopStep(a[1], b[1]) \/ EndStep(a[1], b[1], froms))
                /\ (b # None /\ pc'[r] \in {"chat", "tool"}) =>
                       /\ b[1].iteration = iteration'[r]
                       /\ b[1].current_phase =
                              (IF pc'[r] = "chat" THEN "thinking" ELSE "tool_running")

----------------------------------------------------------------------------
(* The record at the announcement, under Spec. *)

\* The record a has ended, and the status tool shows it so at instant t: it
\* is not in the list of the running ones and its detail has the status.
ShownEnded(a, t) ==
    /\ a.status \in Terminal
    /\ a.current_phase = "done"
    /\ a.ended_at # None
    /\ \A i \in DOMAIN EntryIds(list_running(agents, t)) :
           EntryIds(list_running(agents, t))[i] # a.task_id
    /\ detail(agents, Some(a.task_id), t).lines[1][2][1] = <<a.status>>

\* C33: the tracker is updated before the outcome is announced: when an
\* announcement of a runner is about to be published, and ever after it was,
\* the runner's record, if the tracker still holds it, has a terminal status
\* and the phase done, so a query of the status tool made in reaction to the
\* announcement never shows the runner as running.
C33_MarkedBeforeAnnounced ==
    \A r \in Runners :
        (pc[r] \in {"announce_ok", "announce_err"} \/ Published(r) # {}) =>
            LET a == get(agents, task_id[r][1])
            IN  a # None => ShownEnded(a[1], now)

\* Witness of C33: the announcement of a runner is on the bus and the
\* tracker holds its record, completed.
C33_Witness ==
    \E r \in Runners :
        /\ Published(r) # {}
        /\ get(agents, task_id[r][1]) # None
        /\ get(agents, task_id[r][1])[1].status = "completed"

----------------------------------------------------------------------------
(* Termination, under SpecLive. *)

\* Runner r, if it was spawned, has a record with the status completed or
\* error.
HasEnded(r) ==
    pc[r] # "unborn" =>
        /\ task_id[r] # None
        /\ get(agents, task_id[r][1]) # None
        /\ get(agents, task_id[r][1])[1].status \in Terminal

\* C35: under fair scheduling of the runner tasks, and with every provider
\* request and every tool execution returning or failing in the end, every
\* runner that was spawned eventually has the status completed or error, and
\* once no further spawn occurs get_running_count becomes 0 and stays 0:
\* from some point on every runner that was spawned has ended (a runner
\* that was spawned stays so, and the spawns are finitely many) and
\* get_running_count is 0.
C35_RunnersEnd ==
    <>[](/\ \A r \in Runners : HasEnded(r)
         /\ get_running_count(agents) = 0)

\* Witness of C35: every runner was spawned, one of them went through all
\* its iterations, and none is running.
C35_Witness ==
    /\ \A r \in Runners : pc[r] # "unborn"
    /\ \E r \in Runners : LoopExhausted(r)
    /\ Len(agents) = NumRunners
    /\ get_running_count(agents) = 0

----------------------------------------------------------------------------
(* The tasks the manager holds, under SpecFleet. *)

\* The entry of runner r in _running_tasks: its task under its id.
Entry(r) == <<task_id[r][1], r>>

\* The task of runner r exists and its done callback has not run.
TaskLive(r) ==
    pc[r] \in {"created", "chat", "tool", "announce_ok", "announce_err",
               "finished", "raised"}

\* An entry leaves _running_tasks in the done callback of its own task.
RemovedByOwnTask ==
    \A p \in running_tasks \ running_tasks' :
        /\ pc[p[2]] \in {"finished", "raised"}
        /\ pc'[p[2]] \in {"done", "done_raised"}

\* C36: the manager's _running_tasks holds the entry of a runner from the
\* return of its spawn until its task has finished, on whichever path, and
\* not after; the entry is removed once, by the done callback of that task,
\* and the completion of one runner never removes the entry of another
\* runner that is still executing.
C36_LiveTaskHeld ==
    /\ [](\A r \in DOMAIN pc :
             /\ TaskLive(r) => Entry(r) \in running_tasks
             /\ ~TaskLive(r) => \A p \in running_tasks : p[2] # r)
    /\ [][RemovedByOwnTask]_vars

====
